---------------------------- MODULE Spec2Model ----------------------------
(***************************************************************************)
(* Matching and session layer of the voice-chat signaling server           *)
(* (src/app/services/QueueManager.js: QueueManager and SignalingService).  *)
(*                                                                         *)
(* The shared store (Redis) is modelled by its keys:                       *)
(*   queue:waiting      -> queue        (sorted set, score = timestamp)    *)
(*   room:data:<id>     -> roomData     (string keys holding the payload)  *)
(*   user:room:<userId> -> userRoom     (string keys holding a room id)    *)
(*   rooms:active       -> activeRooms  (set)                              *)
(*   stats:global       -> totalRooms   (hash field totalRooms)            *)
(*                                                                         *)
(* Every socket event starts an async handler.  A handler suspends at each *)
(* `await` of a store command; one step of the model is one store command  *)
(* together with the synchronous code that runs when its reply arrives.    *)
(* Steps of different handlers interleave freely.  Store commands succeed,  *)
(* except where a specification lets them fail (FailureSpec).              *)
(* Keys written with a lifetime expire in ExpirySpec; the shutdown of the  *)
(* process (src/server.js gracefulShutdown) is part of ShutdownSpec.       *)
(* socket.join/leave of the room named by the room id and the analytics    *)
(* writes (DatabaseService) affect nothing modelled here and are left out. *)
(***************************************************************************)
EXTENDS Integers, Sequences, FiniteSets, TLC

\* ------------------------------------------------------------- bounds
NumClients == 3      \* sockets that take part
MaxEvents  == 3      \* socket events in a behaviour with concurrent handlers
MaxSerial  == 4      \* socket events in a behaviour handled one at a time
MaxClock   == 1      \* Date.now() steps through 0..MaxClock
MaxSkip    == 5      \* socket events in a skip-partner scenario
MaxFailures == 1     \* store commands that fail in a behaviour

Clients == 1..NumClients
NoRoom  == 0                     \* a missing key / null room id
NoUser  == 0                     \* null user id
NoBody  == ""                    \* a missing (undefined) offer, answer or candidate
Bodies  == {"sdp-a", "sdp-b"}    \* the bodies clients send

VARIABLES
    queue,        \* queue:waiting : set of entries [userId, timestamp]
    arrival,      \* history: every entry inserted into queue, in order
    roomData,     \* room:data:*   : function room id -> <<userId1, userId2>>
    userRoom,     \* user:room:*   : function client -> room id or NoRoom
    activeRooms,  \* rooms:active  : set of room ids
    totalRooms,   \* stats:global totalRooms
    uuid,         \* number of room ids generated so far
    clock,        \* Date.now()
    connected,    \* client -> BOOLEAN : the socket is connected
    timers,       \* client -> number of pending skip-partner timeouts
    handlers,     \* sequence of handler records, in order of their events
    outbox,       \* client -> sequence of messages delivered to it
    server        \* the process: "running", "closing" after a signal, "exited"

vars  == <<queue, arrival, roomData, userRoom, activeRooms, totalRooms, uuid, clock,
           connected, timers, handlers, outbox, server>>

\* ------------------------------------------------- the waiting queue
\* A member of the sorted set is JSON.stringify({userId, timestamp}); two
\* members are the same string iff both fields agree.
QueueEntry(u, t) == [userId |-> u, timestamp |-> t]

\* Order of the sorted set: by score (the timestamp), members of equal score
\* lexicographically by the member string, which differs first in the userId.
ZBefore(e, f) ==
    \/ e.timestamp < f.timestamp
    \/ e.timestamp = f.timestamp /\ e.userId < f.userId

ZMin(q) == CHOOSE e \in q : \A f \in q \ {e} : ZBefore(e, f)

RECURSIVE ZRange(_)
ZRange(q) == IF q = {} THEN << >> ELSE <<ZMin(q)>> \o ZRange(q \ {ZMin(q)})

ZAdd(q, e) == q \cup {e}
ZRem(q, e) == q \ {e}
ZCard(q)   == Cardinality(q)

\* The history of insertions, which the store does not keep: ZADD of a
\* member that is already present inserts nothing.
Arrived(a, q, e) == IF e \in q THEN a ELSE Append(a, e)

\* The first entry of `entries` whose parsed userId is u, or << >>.
RECURSIVE FindEntry(_, _)
FindEntry(entries, u) ==
    IF entries = << >> THEN << >>
    ELSE IF Head(entries).userId = u THEN <<Head(entries)>>
    ELSE FindEntry(Tail(entries), u)

\* ------------------------------------------------------- room lookups
HasRoomData(r) == r \in DOMAIN roomData

\* roomData.users.find((id) => id !== userId) || null
OtherUser(users, u) ==
    IF users[1] # u THEN users[1]
    ELSE IF users[2] # u THEN users[2]
    ELSE NoUser

\* ---------------------------------------------------------- messages
\* A message delivered to a client.  Fields a message type does not carry
\* hold their default.
Msg(type, room, init, from, pos) ==
    [type |-> type, room |-> room, isInitiator |-> init, from |-> from,
     position |-> pos, body |-> NoBody]

Plain(type) == Msg(type, NoRoom, FALSE, NoUser, 0)

\* A faulty relay that forwards the event without its body.
RelayedWithoutBody(ev, room, from, body) == Msg(ev, room, FALSE, from, 0)

\* A relayed offer, answer or ice-candidate {<body>, roomId}.
Relayed(ev, room, from, body) ==
    [Msg(ev, room, FALSE, from, 0) EXCEPT !.body = body]

\* socket.emit / io.to(id).emit : delivered only to a connected socket.
Emit(ob, c, m) ==
    IF c \in Clients /\ connected[c] THEN [ob EXCEPT ![c] = Append(@, m)] ELSE ob

\* ---------------------------------------------------------- handlers
\* The room a client is paired in: its mapping, when the payload exists.
PairedRoom(c) == IF HasRoomData(userRoom[c]) THEN userRoom[c] ELSE NoRoom

\* The participant of room r that is not c.
PeerIn(r, c) == IF roomData[r][1] = c THEN roomData[r][2] ELSE roomData[r][1]

\* A handler: its socket, its position and its local variables.  `failed`
\* is history: a store command of the handler has thrown.  `enq` is
\* history: the size of the queue right after the handler's ZADD.  `own` is
\* history: the entry the handler dequeued was its caller's own.  `ans` is
\* history: how many of waiting, matched and error the handler has sent to
\* its caller.  `pre` is
\* history: the active-room count and totalRooms when the event arrived,
\* the room and peer the client was paired with at that moment, whether the
\* client had an entry in the waiting queue then, and whether an offer,
\* answer or ice-candidate of the client was still waiting for its lookup.
Handler(c, kind, pc) ==
    [c |-> c, kind |-> kind, pc |-> pc,
     room |-> NoRoom, partner |-> NoUser, pts |-> 0, users |-> << >>,
     ev |-> "", body |-> NoBody, failed |-> FALSE, enq |-> 0, own |-> FALSE,
     ans |-> 0,
     pre |-> [activeRooms |-> Cardinality(activeRooms),
              totalRooms |-> totalRooms,
              room |-> PairedRoom(c),
              peer |-> IF PairedRoom(c) = NoRoom THEN NoUser
                       ELSE PeerIn(PairedRoom(c), c),
              queued |-> \E e \in queue : e.userId = c,
              behind |-> \E i \in 1..Len(handlers) :
                            /\ handlers[i].c = c
                            /\ handlers[i].kind = "relay"
                            /\ handlers[i].pc # "done"]]

\* A handler that has returned: its locals are gone, the history of whom it
\* was paired with, of whether it was queued, of whether a store command of
\* it failed and of what it answered stays.
Done(h) ==
    [c |-> h.c, kind |-> h.kind, pc |-> "done",
     room |-> NoRoom, partner |-> NoUser, pts |-> 0, users |-> << >>,
     ev |-> "", body |-> NoBody, failed |-> h.failed, enq |-> 0, own |-> FALSE,
     ans |-> h.ans,
     pre |-> [activeRooms |-> 0, totalRooms |-> 0,
              room |-> h.pre.room, peer |-> h.pre.peer,
              queued |-> h.pre.queued, behind |-> h.pre.behind]]

\* The handler has sent waiting, matched or error to its caller.
Answered(h) == [h EXCEPT !.ans = @ + 1]

Running == {i \in 1..Len(handlers) : handlers[i].pc # "done"}

At(i, kinds, pc) ==
    /\ i \in 1..Len(handlers)
    /\ handlers[i].kind \in kinds
    /\ handlers[i].pc = pc

Set(i, h) == handlers' = [handlers EXCEPT ![i] = h]

Goto(i, pc) == Set(i, [handlers[i] EXCEPT !.pc = pc])

Init ==
    /\ queue = {}
    /\ arrival = << >>
    /\ roomData = << >>
    /\ userRoom = [c \in Clients |-> NoRoom]
    /\ activeRooms = {}
    /\ totalRooms = 0
    /\ uuid = 0
    /\ clock = 0
    /\ connected = [c \in Clients |-> TRUE]
    /\ timers = [c \in Clients |-> 0]
    /\ handlers = << >>
    /\ outbox = [c \in Clients |-> <<Plain("ice-servers")>>]
    /\ server = "running"

\* Date.now() advances.
Tick ==
    /\ clock < MaxClock
    /\ clock' = clock + 1
    /\ UNCHANGED <<server, queue, arrival, roomData, userRoom, activeRooms, totalRooms, uuid,
                   connected, timers, handlers, outbox>>

\* ------------------------------------------------ socket events arrive
\* A new handler starts; it runs to its first await, which in every handler
\* is its first store command.
Start(c, kind, pc) == handlers' = Append(handlers, Handler(c, kind, pc))

\* socket.on("find-partner")
StartFindPartner(c) ==
    /\ connected[c]
    /\ Start(c, "find", "getRoomByUser")
    /\ UNCHANGED <<server, queue, arrival, roomData, userRoom, activeRooms, totalRooms, uuid,
                   clock, connected, timers, outbox>>

\* ------------------------------------------------- handleFindPartner
\* QueueManager.getRoomByUser, first command: GET user:room:<socket.id>
FindGetRoomByUser(i) ==
    /\ At(i, {"find"}, "getRoomByUser")
    /\ LET h == handlers[i]
           r == userRoom[h.c]
       IN  Set(i, IF r = NoRoom
                  THEN [h EXCEPT !.pc = "isInQueue"]
                  ELSE [h EXCEPT !.pc = "getRoom", !.room = r])
    /\ UNCHANGED <<server, queue, arrival, roomData, userRoom, activeRooms, totalRooms, uuid,
                   clock, connected, timers, outbox>>

\* A faulty room check that lets a paired client go on to the queue.
FindGetRoomIgnored(i) ==
    /\ At(i, {"find"}, "getRoom")
    /\ Set(i, [handlers[i] EXCEPT !.pc = "isInQueue", !.room = NoRoom])
    /\ UNCHANGED <<server, queue, arrival, roomData, userRoom, activeRooms, totalRooms, uuid,
                   clock, connected, timers, outbox>>

\* QueueManager.getRoom inside getRoomByUser: GET room:data:<roomId>;
\* an existing room answers "You are already in a chat".
FindGetRoom(i) ==
    /\ At(i, {"find"}, "getRoom")
    /\ LET h == handlers[i]
       IN  IF HasRoomData(h.room)
           THEN /\ outbox' = Emit(outbox, h.c, Plain("error"))
                /\ Set(i, Done(Answered(h)))
           ELSE /\ outbox' = outbox
                /\ Set(i, [h EXCEPT !.pc = "isInQueue", !.room = NoRoom])
    /\ UNCHANGED <<server, queue, arrival, roomData, userRoom, activeRooms, totalRooms, uuid,
                   clock, connected, timers>>

\* A faulty queue check that lets a queued client go on to the matching.
FindIsInQueueIgnored(i) ==
    /\ At(i, {"find"}, "isInQueue")
    /\ Set(i, [handlers[i] EXCEPT !.pc = "getNext_zrange"])
    /\ UNCHANGED <<server, queue, arrival, roomData, userRoom, activeRooms, totalRooms, uuid,
                   clock, connected, timers, outbox>>

\* QueueManager.isInQueue: ZRANGE queue:waiting 0 -1 and a scan for the user.
FindIsInQueue(i) ==
    /\ At(i, {"find"}, "isInQueue")
    /\ LET h == handlers[i]
       IN  IF FindEntry(ZRange(queue), h.c) # << >>
           THEN /\ outbox' = Emit(outbox, h.c, Plain("waiting"))
                /\ Set(i, Done(Answered(h)))
           ELSE /\ outbox' = outbox
                /\ Set(i, [h EXCEPT !.pc = "getNext_zrange"])
    /\ UNCHANGED <<server, queue, arrival, roomData, userRoom, activeRooms, totalRooms, uuid,
                   clock, connected, timers>>

\* A faulty getNextFromQueue that reads the newest entry of the queue.
FindGetNextZrangeNewest(i) ==
    /\ At(i, {"find"}, "getNext_zrange")
    /\ LET h == handlers[i]
           last == CHOOSE e \in queue : \A f \in queue \ {e} : ZBefore(f, e)
       IN  Set(i, IF queue = {}
                  THEN [h EXCEPT !.pc = "addToQueue_zadd"]
                  ELSE [h EXCEPT !.pc = "getNext_zrem",
                                 !.partner = last.userId,
                                 !.pts = last.timestamp])
    /\ UNCHANGED <<server, queue, arrival, roomData, userRoom, activeRooms, totalRooms, uuid,
                   clock, connected, timers, outbox>>

\* QueueManager.getNextFromQueue, first command: ZRANGE queue:waiting 0 0.
\* An empty reply returns null and the caller goes on to addToQueue.
FindGetNextZrange(i) ==
    /\ At(i, {"find"}, "getNext_zrange")
    /\ LET h == handlers[i]
       IN  Set(i, IF queue = {}
                  THEN [h EXCEPT !.pc = "addToQueue_zadd"]
                  ELSE [h EXCEPT !.pc = "getNext_zrem",
                                 !.partner = ZMin(queue).userId,
                                 !.pts = ZMin(queue).timestamp])
    /\ UNCHANGED <<server, queue, arrival, roomData, userRoom, activeRooms, totalRooms, uuid,
                   clock, connected, timers, outbox>>

\* QueueManager.getNextFromQueue, second command: ZREM of the entry read; its
\* reply (the number removed) is not looked at.  Then, for a partner other
\* than the caller, createRoom starts and draws its room id.
FindGetNextZrem(i) ==
    /\ At(i, {"find"}, "getNext_zrem")
    /\ LET h == handlers[i]
       IN  /\ queue' = ZRem(queue, QueueEntry(h.partner, h.pts))
           /\ arrival' = arrival
           /\ IF h.partner # h.c
              THEN /\ uuid' = uuid + 1
                   /\ Set(i, [h EXCEPT !.pc = "createRoom_setex_room",
                                       !.room = uuid + 1, !.pts = 0])
              ELSE /\ uuid' = uuid
                   /\ Set(i, [h EXCEPT !.pc = "addToQueue_zadd",
                                       !.partner = NoUser, !.pts = 0,
                                       !.own = TRUE])
    /\ UNCHANGED <<server, roomData, userRoom, activeRooms, totalRooms, clock,
                   connected, timers, outbox>>

\* QueueManager.createRoom: SETEX room:data:<roomId>
CreateRoomSetexRoom(i) ==
    /\ At(i, {"find"}, "createRoom_setex_room")
    /\ LET h == handlers[i]
       IN  /\ roomData' = (h.room :> <<h.c, h.partner>>) @@ roomData
           /\ Goto(i, "createRoom_setex_user1")
    /\ UNCHANGED <<server, queue, arrival, userRoom, activeRooms, totalRooms, uuid, clock,
                   connected, timers, outbox>>

\* QueueManager.createRoom: SETEX user:room:<userId1>
CreateRoomSetexUser1(i) ==
    /\ At(i, {"find"}, "createRoom_setex_user1")
    /\ LET h == handlers[i]
       IN  /\ userRoom' = [userRoom EXCEPT ![h.c] = h.room]
           /\ Goto(i, "createRoom_setex_user2")
    /\ UNCHANGED <<server, queue, arrival, roomData, activeRooms, totalRooms, uuid, clock,
                   connected, timers, outbox>>

\* QueueManager.createRoom: SETEX user:room:<userId2>
CreateRoomSetexUser2(i) ==
    /\ At(i, {"find"}, "createRoom_setex_user2")
    /\ LET h == handlers[i]
       IN  /\ userRoom' = [userRoom EXCEPT ![h.partner] = h.room]
           /\ Goto(i, "createRoom_sadd")
    /\ UNCHANGED <<server, queue, arrival, roomData, activeRooms, totalRooms, uuid, clock,
                   connected, timers, outbox>>

\* QueueManager.createRoom: SADD rooms:active
CreateRoomSadd(i) ==
    /\ At(i, {"find"}, "createRoom_sadd")
    /\ LET h == handlers[i]
       IN  /\ activeRooms' = activeRooms \cup {h.room}
           /\ Goto(i, "createRoom_hincrby")
    /\ UNCHANGED <<server, queue, arrival, roomData, userRoom, totalRooms, uuid, clock,
                   connected, timers, outbox>>

\* QueueManager.incrementStat("totalRooms"): HINCRBY; createRoom returns the
\* room and handleFindPartner sends matched to the caller (initiator) and
\* to the dequeued partner.
CreateRoomHincrby(i) ==
    /\ At(i, {"find"}, "createRoom_hincrby")
    /\ LET h == handlers[i]
       IN  /\ totalRooms' = totalRooms + 1
           /\ outbox' = Emit(Emit(outbox, h.c,
                                  Msg("matched", h.room, TRUE, NoUser, 0)),
                             h.partner, Msg("matched", h.room, FALSE, NoUser, 0))
           /\ Set(i, Done(Answered(h)))
    /\ UNCHANGED <<server, queue, arrival, roomData, userRoom, activeRooms, uuid, clock,
                   connected, timers>>

\* A faulty enqueue branch that adds the entry and tells the caller nothing.
FindAddToQueueSilent(i) ==
    /\ At(i, {"find"}, "addToQueue_zadd")
    /\ LET h == handlers[i]
       IN  /\ queue' = ZAdd(queue, QueueEntry(h.c, clock))
           /\ arrival' = Arrived(arrival, queue, QueueEntry(h.c, clock))
           /\ outbox' = outbox
           /\ Set(i, [h EXCEPT !.pc = "getQueueSize",
                               !.enq = ZCard(ZAdd(queue, QueueEntry(h.c, clock)))])
    /\ UNCHANGED <<server, roomData, userRoom, activeRooms, totalRooms, uuid, clock,
                   connected, timers>>

\* QueueManager.addToQueue: timestamp = Date.now() and ZADD of the new entry,
\* issued in the same synchronous block; then "waiting" is sent.
FindAddToQueue(i) ==
    /\ At(i, {"find"}, "addToQueue_zadd")
    /\ LET h == handlers[i]
       IN  /\ queue' = ZAdd(queue, QueueEntry(h.c, clock))
           /\ arrival' = Arrived(arrival, queue, QueueEntry(h.c, clock))
           /\ outbox' = Emit(outbox, h.c, Plain("waiting"))
           /\ Set(i, [Answered(h) EXCEPT
                         !.pc = "getQueueSize",
                         !.enq = ZCard(ZAdd(queue, QueueEntry(h.c, clock)))])
    /\ UNCHANGED <<server, roomData, userRoom, activeRooms, totalRooms, uuid, clock,
                   connected, timers>>

\* QueueManager.getQueueSize: ZCARD; then queue-update {position: queueSize}.
FindGetQueueSize(i) ==
    /\ At(i, {"find"}, "getQueueSize")
    /\ LET h == handlers[i]
       IN  /\ outbox' = Emit(outbox, h.c,
                             Msg("queue-update", NoRoom, FALSE, NoUser, ZCard(queue)))
           /\ Set(i, Done(h))
    /\ UNCHANGED <<server, queue, arrival, roomData, userRoom, activeRooms, totalRooms, uuid,
                   clock, connected, timers>>

\* The steps of handleFindPartner for a caller that has no room mapping.
PairingStep(i) ==
    \/ FindGetRoomByUser(i)
    \/ FindIsInQueue(i)
    \/ FindGetNextZrange(i)
    \/ FindGetNextZrem(i)
    \/ CreateRoomSetexRoom(i)
    \/ CreateRoomSetexUser1(i)
    \/ CreateRoomSetexUser2(i)
    \/ CreateRoomSadd(i)
    \/ CreateRoomHincrby(i)
    \/ FindAddToQueue(i)
    \/ FindGetQueueSize(i)

FindPartnerStep(i) == PairingStep(i) \/ FindGetRoom(i)

\* ------------------------------- store commands that fail (find-partner)
\* A store command throws (connection lost, timeout).  Every QueueManager
\* method catches the error and returns its fallback value, on which
\* handleFindPartner goes on.
Failures == Cardinality({j \in 1..Len(handlers) : handlers[j].failed})

CanFail(i, pcs) ==
    /\ i \in 1..Len(handlers)
    /\ handlers[i].kind = "find"
    /\ handlers[i].pc \in pcs
    /\ Failures < MaxFailures

\* getRoomByUser: either GET throws; null is returned, which the caller
\* reads as "not in a room".
FailGetRoomByUser(i) ==
    /\ CanFail(i, {"getRoomByUser", "getRoom"})
    /\ Set(i, [handlers[i] EXCEPT !.pc = "isInQueue", !.room = NoRoom,
                                  !.failed = TRUE])
    /\ UNCHANGED <<server, queue, arrival, roomData, userRoom, activeRooms, totalRooms, uuid,
                   clock, connected, timers, outbox>>

\* isInQueue: ZRANGE throws; false is returned.
FailIsInQueue(i) ==
    /\ CanFail(i, {"isInQueue"})
    /\ Set(i, [handlers[i] EXCEPT !.pc = "getNext_zrange", !.failed = TRUE])
    /\ UNCHANGED <<server, queue, arrival, roomData, userRoom, activeRooms, totalRooms, uuid,
                   clock, connected, timers, outbox>>

\* getNextFromQueue: ZRANGE or ZREM throws; null is returned and the caller
\* goes on to addToQueue.  After a failed ZREM the entry read stays queued.
FailGetNextFromQueue(i) ==
    /\ CanFail(i, {"getNext_zrange", "getNext_zrem"})
    /\ Set(i, [handlers[i] EXCEPT !.pc = "addToQueue_zadd", !.partner = NoUser,
                                  !.pts = 0, !.failed = TRUE])
    /\ UNCHANGED <<server, queue, arrival, roomData, userRoom, activeRooms, totalRooms, uuid,
                   clock, connected, timers, outbox>>

\* createRoom: a SETEX or the SADD throws; createRoom logs the error and
\* returns null.  What it wrote before stays.  The caller goes on to put
\* both users back into the queue.
FailCreateRoom(i) ==
    /\ CanFail(i, {"createRoom_setex_room", "createRoom_setex_user1",
                   "createRoom_setex_user2", "createRoom_sadd"})
    /\ Set(i, [handlers[i] EXCEPT !.pc = "requeue_self", !.failed = TRUE])
    /\ UNCHANGED <<server, queue, arrival, roomData, userRoom, activeRooms, totalRooms, uuid,
                   clock, connected, timers, outbox>>

\* incrementStat: HINCRBY throws; incrementStat returns 0 and createRoom
\* returns the room: both clients are sent matched.
FailIncrementStat(i) ==
    /\ CanFail(i, {"createRoom_hincrby"})
    /\ LET h == handlers[i]
       IN  /\ outbox' = Emit(Emit(outbox, h.c,
                                  Msg("matched", h.room, TRUE, NoUser, 0)),
                             h.partner, Msg("matched", h.room, FALSE, NoUser, 0))
           /\ Set(i, Done(Answered([h EXCEPT !.failed = TRUE])))
    /\ UNCHANGED <<server, queue, arrival, roomData, userRoom, activeRooms, totalRooms, uuid,
                   clock, connected, timers>>

\* addToQueue: ZADD throws; false is returned, which the caller does not
\* look at: "waiting" is sent.
FailAddToQueue(i) ==
    /\ CanFail(i, {"addToQueue_zadd"})
    /\ outbox' = Emit(outbox, handlers[i].c, Plain("waiting"))
    /\ Set(i, [Answered(handlers[i]) EXCEPT !.pc = "getQueueSize",
                                             !.failed = TRUE])
    /\ UNCHANGED <<server, queue, arrival, roomData, userRoom, activeRooms, totalRooms, uuid,
                   clock, connected, timers>>

\* getQueueSize: ZCARD throws; 0 is returned and sent as the position.
FailGetQueueSize(i) ==
    /\ CanFail(i, {"getQueueSize"})
    /\ outbox' = Emit(outbox, handlers[i].c,
                      Msg("queue-update", NoRoom, FALSE, NoUser, 0))
    /\ Set(i, Done([handlers[i] EXCEPT !.failed = TRUE]))
    /\ UNCHANGED <<server, queue, arrival, roomData, userRoom, activeRooms, totalRooms, uuid,
                   clock, connected, timers>>

\* createRoom returned null: addToQueue(socket.id).
RequeueSelf(i) ==
    /\ At(i, {"find"}, "requeue_self")
    /\ LET h == handlers[i]
       IN  /\ queue' = ZAdd(queue, QueueEntry(h.c, clock))
           /\ arrival' = Arrived(arrival, queue, QueueEntry(h.c, clock))
           /\ Goto(i, "requeue_partner")
    /\ UNCHANGED <<server, roomData, userRoom, activeRooms, totalRooms, uuid, clock,
                   connected, timers, outbox>>

\* createRoom returned null: addToQueue(partner.userId), then the error
\* "Failed to create chat room" to the caller.
RequeuePartner(i) ==
    /\ At(i, {"find"}, "requeue_partner")
    /\ LET h == handlers[i]
       IN  /\ queue' = ZAdd(queue, QueueEntry(h.partner, clock))
           /\ arrival' = Arrived(arrival, queue, QueueEntry(h.partner, clock))
           /\ outbox' = Emit(outbox, h.c, Plain("error"))
           /\ Set(i, Done(Answered(h)))
    /\ UNCHANGED <<server, roomData, userRoom, activeRooms, totalRooms, uuid, clock,
                   connected, timers>>

FailureStep(i) ==
    \/ FailGetRoomByUser(i)
    \/ FailIsInQueue(i)
    \/ FailGetNextFromQueue(i)
    \/ FailCreateRoom(i)
    \/ FailIncrementStat(i)
    \/ FailAddToQueue(i)
    \/ FailGetQueueSize(i)
    \/ RequeueSelf(i)
    \/ RequeuePartner(i)

\* ------------------------- handleLeaveChat / handleDisconnect / skip
LeaveKinds == {"leave", "skip", "disconnect"}

\* socket.on("leave-chat")
StartLeaveChat(c) ==
    /\ connected[c]
    /\ Start(c, "leave", "getRoomByUser")
    /\ UNCHANGED <<server, queue, arrival, roomData, userRoom, activeRooms, totalRooms, uuid,
                   clock, connected, timers, outbox>>

\* socket.on("skip-partner"): handleSkipPartner awaits handleLeaveChat first.
StartSkipPartner(c) ==
    /\ connected[c]
    /\ Start(c, "skip", "getRoomByUser")
    /\ UNCHANGED <<server, queue, arrival, roomData, userRoom, activeRooms, totalRooms, uuid,
                   clock, connected, timers, outbox>>

\* socket.on("disconnect"): the socket is gone when the handler runs.
StartDisconnect(c) ==
    /\ connected[c]
    /\ connected' = [connected EXCEPT ![c] = FALSE]
    /\ Start(c, "disconnect", "getRoomByUser")
    /\ UNCHANGED <<server, queue, arrival, roomData, userRoom, activeRooms, totalRooms, uuid,
                   clock, timers, outbox>>

\* What follows removeFromQueue: left-chat to the leaver (leave-chat and
\* skip-partner), and for skip-partner the 500 ms timeout is armed.
LeaveFinish(i) ==
    LET h == handlers[i]
    IN  /\ outbox' = IF h.kind = "disconnect" THEN outbox
                     ELSE Emit(outbox, h.c, Plain("left-chat"))
        /\ timers' = IF h.kind = "skip" THEN [timers EXCEPT ![h.c] = @ + 1]
                     ELSE timers
        /\ Set(i, Done(h))

\* QueueManager.getRoomByUser, first command: GET user:room:<socket.id>
LeaveGetRoomByUser(i) ==
    /\ At(i, LeaveKinds, "getRoomByUser")
    /\ LET h == handlers[i]
           r == userRoom[h.c]
       IN  Set(i, IF r = NoRoom
                  THEN [h EXCEPT !.pc = "removeFromQueue_zrange"]
                  ELSE [h EXCEPT !.pc = "getRoom", !.room = r])
    /\ UNCHANGED <<server, queue, arrival, roomData, userRoom, activeRooms, totalRooms, uuid,
                   clock, connected, timers, outbox>>

\* QueueManager.getRoom inside getRoomByUser: GET room:data:<roomId>
LeaveGetRoom(i) ==
    /\ At(i, LeaveKinds, "getRoom")
    /\ LET h == handlers[i]
       IN  Set(i, IF HasRoomData(h.room)
                  THEN [h EXCEPT !.pc = "getOtherUser"]
                  ELSE [h EXCEPT !.pc = "removeFromQueue_zrange",
                                 !.room = NoRoom])
    /\ UNCHANGED <<server, queue, arrival, roomData, userRoom, activeRooms, totalRooms, uuid,
                   clock, connected, timers, outbox>>

\* A faulty getOtherUser step of the leave handlers: the partner is looked
\* up but not notified.
LeaveGetOtherUserSilent(i) ==
    /\ At(i, {"leave", "skip", "disconnect"}, "getOtherUser")
    /\ Goto(i, "closeRoom_getRoom")
    /\ UNCHANGED <<server, queue, arrival, roomData, userRoom, activeRooms, totalRooms, uuid,
                   clock, connected, timers, outbox>>

\* QueueManager.getOtherUser: GET room:data:<roomId>; the partner found is
\* sent partner-left (leave-chat, skip-partner) or partner-disconnected.
\* The message's room and from fields record which room and whose handler
\* produced it; the wire message carries only a text.
LeaveGetOtherUser(i) ==
    /\ At(i, LeaveKinds, "getOtherUser")
    /\ LET h == handlers[i]
           partnerId == IF HasRoomData(h.room)
                        THEN OtherUser(roomData[h.room], h.c) ELSE NoUser
           type == IF h.kind = "disconnect" THEN "partner-disconnected"
                   ELSE "partner-left"
       IN  /\ outbox' = IF partnerId # NoUser
                        THEN Emit(outbox, partnerId,
                                  Msg(type, h.room, FALSE, h.c, 0))
                        ELSE outbox
           /\ Goto(i, "closeRoom_getRoom")
    /\ UNCHANGED <<server, queue, arrival, roomData, userRoom, activeRooms, totalRooms, uuid,
                   clock, connected, timers>>

\* A faulty closeRoom that does not return when the room is missing.
CloseRoomGetRoomUnchecked(i) ==
    /\ At(i, {"leave", "skip", "disconnect"}, "closeRoom_getRoom")
    /\ LET h == handlers[i]
       IN  Set(i, IF HasRoomData(h.room)
                  THEN [h EXCEPT !.pc = "closeRoom_del_user1",
                                 !.users = roomData[h.room]]
                  ELSE [h EXCEPT !.pc = "closeRoom_del_room"])
    /\ UNCHANGED <<server, queue, arrival, roomData, userRoom, activeRooms, totalRooms, uuid,
                   clock, connected, timers, outbox>>

\* QueueManager.closeRoom: getRoom(roomId); a missing room returns false.
CloseRoomGetRoom(i) ==
    /\ At(i, LeaveKinds, "closeRoom_getRoom")
    /\ LET h == handlers[i]
       IN  Set(i, IF HasRoomData(h.room)
                  THEN [h EXCEPT !.pc = "closeRoom_del_user1",
                                 !.users = roomData[h.room]]
                  ELSE [h EXCEPT !.pc = "removeFromQueue_zrange",
                                 !.room = NoRoom])
    /\ UNCHANGED <<server, queue, arrival, roomData, userRoom, activeRooms, totalRooms, uuid,
                   clock, connected, timers, outbox>>

\* QueueManager.closeRoom: DEL user:room:<users[0]>
CloseRoomDelUser1(i) ==
    /\ At(i, LeaveKinds, "closeRoom_del_user1")
    /\ LET h == handlers[i]
       IN  /\ userRoom' = [userRoom EXCEPT ![h.users[1]] = NoRoom]
           /\ Goto(i, "closeRoom_del_user2")
    /\ UNCHANGED <<server, queue, arrival, roomData, activeRooms, totalRooms, uuid, clock,
                   connected, timers, outbox>>

\* A faulty closeRoom that deletes only the first participant's mapping.
CloseRoomDelUser2Kept(i) ==
    /\ At(i, {"leave", "skip", "disconnect"}, "closeRoom_del_user2")
    /\ Goto(i, "closeRoom_del_room")
    /\ UNCHANGED <<server, queue, arrival, roomData, userRoom, activeRooms, totalRooms, uuid,
                   clock, connected, timers, outbox>>

\* QueueManager.closeRoom: DEL user:room:<users[1]>
CloseRoomDelUser2(i) ==
    /\ At(i, LeaveKinds, "closeRoom_del_user2")
    /\ LET h == handlers[i]
       IN  /\ userRoom' = [userRoom EXCEPT ![h.users[2]] = NoRoom]
           /\ Goto(i, "closeRoom_del_room")
    /\ UNCHANGED <<server, queue, arrival, roomData, activeRooms, totalRooms, uuid, clock,
                   connected, timers, outbox>>

\* QueueManager.closeRoom: DEL room:data:<roomId>
CloseRoomDelRoom(i) ==
    /\ At(i, LeaveKinds, "closeRoom_del_room")
    /\ LET h == handlers[i]
       IN  /\ roomData' = [r \in DOMAIN roomData \ {h.room} |-> roomData[r]]
           /\ Goto(i, "closeRoom_srem")
    /\ UNCHANGED <<server, queue, arrival, userRoom, activeRooms, totalRooms, uuid, clock,
                   connected, timers, outbox>>

\* QueueManager.closeRoom: SREM rooms:active
CloseRoomSrem(i) ==
    /\ At(i, LeaveKinds, "closeRoom_srem")
    /\ LET h == handlers[i]
       IN  /\ activeRooms' = activeRooms \ {h.room}
           /\ Set(i, [h EXCEPT !.pc = "removeFromQueue_zrange",
                               !.room = NoRoom, !.users = << >>])
    /\ UNCHANGED <<server, queue, arrival, roomData, userRoom, totalRooms, uuid, clock,
                   connected, timers, outbox>>


\* A faulty removeFromQueue that removes the head of the queue when the user
\* has no entry.
RemoveFromQueueZrangeHead(i) ==
    /\ At(i, {"leave", "skip", "disconnect"}, "removeFromQueue_zrange")
    /\ LET h == handlers[i]
           found == FindEntry(ZRange(queue), h.c)
       IN  IF found = << >>
           THEN /\ queue' = IF queue = {} THEN queue ELSE ZRem(queue, ZMin(queue))
                /\ LeaveFinish(i)
           ELSE /\ queue' = queue
                /\ Set(i, [h EXCEPT !.pc = "removeFromQueue_zrem",
                                    !.pts = found[1].timestamp])
                /\ UNCHANGED <<server, timers, outbox>>
    /\ UNCHANGED <<server, arrival, roomData, userRoom, activeRooms, totalRooms, uuid,
                   clock, connected>>

\* QueueManager.removeFromQueue: ZRANGE queue:waiting 0 -1 and a scan for
\* the user's entry; without one it returns false.
RemoveFromQueueZrange(i) ==
    /\ At(i, LeaveKinds, "removeFromQueue_zrange")
    /\ LET h == handlers[i]
           found == FindEntry(ZRange(queue), h.c)
       IN  IF found = << >>
           THEN LeaveFinish(i)
           ELSE /\ Set(i, [h EXCEPT !.pc = "removeFromQueue_zrem",
                                    !.pts = found[1].timestamp])
                /\ UNCHANGED <<server, timers, outbox>>
    /\ UNCHANGED <<server, queue, arrival, roomData, userRoom, activeRooms, totalRooms, uuid,
                   clock, connected>>

\* A faulty removeFromQueue that removes the head of the queue.
RemoveFromQueueZremHead(i) ==
    /\ At(i, {"leave", "skip", "disconnect"}, "removeFromQueue_zrem")
    /\ queue' = IF queue = {} THEN queue ELSE ZRem(queue, ZMin(queue))
    /\ arrival' = arrival
    /\ LeaveFinish(i)
    /\ UNCHANGED <<server, roomData, userRoom, activeRooms, totalRooms, uuid, clock,
                   connected>>

\* QueueManager.removeFromQueue: ZREM of the entry found.
RemoveFromQueueZrem(i) ==
    /\ At(i, LeaveKinds, "removeFromQueue_zrem")
    /\ LET h == handlers[i]
       IN  /\ queue' = ZRem(queue, QueueEntry(h.c, h.pts))
           /\ arrival' = arrival
           /\ LeaveFinish(i)
    /\ UNCHANGED <<server, roomData, userRoom, activeRooms, totalRooms, uuid, clock,
                   connected>>

LeaveStep(i) ==
    \/ LeaveGetRoomByUser(i)
    \/ LeaveGetRoom(i)
    \/ LeaveGetOtherUser(i)
    \/ CloseRoomGetRoom(i)
    \/ CloseRoomDelUser1(i)
    \/ CloseRoomDelUser2(i)
    \/ CloseRoomDelRoom(i)
    \/ CloseRoomSrem(i)
    \/ RemoveFromQueueZrange(i)
    \/ RemoveFromQueueZrem(i)

\* The timeout armed by handleSkipPartner fires: handleFindPartner(socket)
\* runs, whether or not the socket is still connected.
SkipTimeout(c) ==
    /\ timers[c] > 0
    /\ timers' = [timers EXCEPT ![c] = @ - 1]
    /\ Start(c, "find", "getRoomByUser")
    /\ UNCHANGED <<server, queue, arrival, roomData, userRoom, activeRooms, totalRooms, uuid,
                   clock, connected, outbox>>

\* ------------------------------- handleOffer / Answer / IceCandidate
RelayEvents == {"offer", "answer", "ice-candidate"}

\* What the sender gets when nothing is forwarded: an error for an offer or
\* an answer, nothing for an ICE candidate.
RelayNoPartner(ob, c, ev) ==
    IF ev = "ice-candidate" THEN ob ELSE Emit(ob, c, Plain("error"))

\* socket.on(ev) with data {<body>, roomId: rid}.  Data that lacks the body
\* or the roomId ends the handler at once: "Invalid ... data" for an offer
\* or an answer, nothing for an ICE candidate.
StartRelay(c, ev, rid, body) ==
    /\ connected[c]
    /\ IF body = NoBody \/ rid = NoRoom
       THEN /\ handlers' = Append(handlers, Done(Handler(c, "relay", "done")))
            /\ outbox' = RelayNoPartner(outbox, c, ev)
       ELSE /\ handlers' = Append(handlers,
                                  [Handler(c, "relay", "getOtherUser")
                                       EXCEPT !.room = rid, !.ev = ev,
                                              !.body = body])
            /\ outbox' = outbox
    /\ UNCHANGED <<server, queue, arrival, roomData, userRoom, activeRooms, totalRooms,
                   uuid, clock, connected, timers>>

\* QueueManager.getOtherUser(roomId, socket.id) and the forward to the user
\* it returns.  The forwarded message's from field records the sender.
RelayGetOtherUser(i) ==
    /\ At(i, {"relay"}, "getOtherUser")
    /\ LET h == handlers[i]
           partnerId == IF HasRoomData(h.room)
                        THEN OtherUser(roomData[h.room], h.c) ELSE NoUser
       IN  /\ outbox' = IF partnerId # NoUser
                        THEN Emit(outbox, partnerId,
                                  Relayed(h.ev, h.room, h.c, h.body))
                        ELSE RelayNoPartner(outbox, h.c, h.ev)
           /\ Set(i, Done(h))
    /\ UNCHANGED <<server, queue, arrival, roomData, userRoom, activeRooms, totalRooms, uuid,
                   clock, connected, timers>>

\* ----------------------------------------------------------- expiry
\* The store evicts room:data:<r>, written by SETEX with a lifetime of 3600 s.
ExpireRoomData(r) ==
    /\ HasRoomData(r)
    /\ roomData' = [x \in DOMAIN roomData \ {r} |-> roomData[x]]
    /\ UNCHANGED <<server, queue, arrival, userRoom, activeRooms, totalRooms, uuid,
                   clock, connected, timers, handlers, outbox>>

\* The store evicts user:room:<c>, written by SETEX with a lifetime of 3600 s.
\* The set rooms:active, written by SADD, has no lifetime.
ExpireUserRoom(c) ==
    /\ userRoom[c] # NoRoom
    /\ userRoom' = [userRoom EXCEPT ![c] = NoRoom]
    /\ UNCHANGED <<server, queue, arrival, roomData, activeRooms, totalRooms, uuid,
                   clock, connected, timers, handlers, outbox>>

\* ----------------------------------------------------------- shutdown
\* SIGTERM or SIGINT.  closeRedisConnection, registered on the signal too,
\* quits the store connection at once; gracefulShutdown calls server.close,
\* which stops the listening for new connections, and arms the 10 s timeout.
\* The connected sockets stay open.
GracefulShutdown ==
    /\ server = "running"
    /\ server' = "closing"
    /\ UNCHANGED <<queue, arrival, roomData, userRoom, activeRooms, totalRooms, uuid,
                   clock, connected, timers, handlers, outbox>>

\* handleDisconnect once the store connection is closed: getRoomByUser
\* catches the rejected GET and returns null, removeFromQueue catches and
\* returns false; nothing is sent and nothing is closed.
DisconnectStoreClosed(c) ==
    [Done(Handler(c, "disconnect", "done")) EXCEPT !.failed = TRUE]

\* A client closes its socket while the server is closing.
DisconnectWhileClosing(c) ==
    /\ server = "closing"
    /\ connected[c]
    /\ connected' = [connected EXCEPT ![c] = FALSE]
    /\ handlers' = Append(handlers, DisconnectStoreClosed(c))
    /\ UNCHANGED <<server, queue, arrival, roomData, userRoom, activeRooms, totalRooms,
                   uuid, clock, timers, outbox>>

\* The callback of server.close: the store and the pool are closed, io.close
\* disconnects every socket that is still connected, which runs
\* handleDisconnect for it, and process.exit(0) ends the process.
ShutdownCallback ==
    /\ server = "closing"
    /\ server' = "exited"
    /\ LET open == SelectSeq([c \in 1..NumClients |-> c], LAMBDA c : connected[c])
       IN  handlers' = handlers \o [k \in 1..Len(open) |->
                                        DisconnectStoreClosed(open[k])]
    /\ connected' = [c \in Clients |-> FALSE]
    /\ UNCHANGED <<queue, arrival, roomData, userRoom, activeRooms, totalRooms, uuid,
                   clock, timers, outbox>>

\* The 10 s timeout of gracefulShutdown: process.exit(1).
ForcedExit ==
    /\ server = "closing"
    /\ server' = "exited"
    /\ UNCHANGED <<queue, arrival, roomData, userRoom, activeRooms, totalRooms, uuid,
                   clock, connected, timers, handlers, outbox>>

\* A store whose replies come back in any order.
ReplyAnyOrder(i) == i \in Running

\* The handlers share the one connection redisClient, and the store answers
\* the commands of a connection in the order they were sent: the lookup of
\* a relay handler is answered after those of every earlier event.
ReplyInOrder(i) == i \in Running /\ \A j \in Running : j >= i

\* ----------------------------------------------------- specifications
Step(i) == FindPartnerStep(i) \/ LeaveStep(i)

\* Any client may send find-partner, leave-chat, skip-partner or disconnect
\* at any time; handlers interleave at every store command.
Next ==
    \/ Tick
    \/ /\ Len(handlers) < MaxEvents
       /\ \E c \in Clients :
            \/ StartFindPartner(c)
            \/ StartLeaveChat(c)
            \/ StartSkipPartner(c)
            \/ StartDisconnect(c)
            \/ SkipTimeout(c)
    \/ \E i \in 1..Len(handlers) : Step(i)

Spec == Init /\ [][Next]_vars

\* Every event is handled to completion before the next one arrives.
SerialNext ==
    \/ Tick
    \/ /\ Running = {}
       /\ Len(handlers) < MaxSerial
       /\ \E c \in Clients :
            \/ StartFindPartner(c)
            \/ StartLeaveChat(c)
            \/ StartSkipPartner(c)
            \/ StartDisconnect(c)
            \/ SkipTimeout(c)
            \/ \E ev \in RelayEvents, rid \in 0..uuid,
                  body \in Bodies \cup {NoBody} : StartRelay(c, ev, rid, body)
    \/ \E i \in 1..Len(handlers) : Step(i) \/ RelayGetOtherUser(i)

SerialSpec == Init /\ [][SerialNext]_vars

\* Every event is handled to completion before the next one arrives;
\* clients pair, leave and send offers, answers and ice-candidates.
RelayNext ==
    \/ Tick
    \/ /\ Running = {}
       /\ Len(handlers) < MaxSerial
       /\ \E c \in Clients :
            \/ StartFindPartner(c)
            \/ StartLeaveChat(c)
            \/ \E ev \in RelayEvents, rid \in 0..uuid,
                  body \in Bodies \cup {NoBody} : StartRelay(c, ev, rid, body)
    \/ \E i \in 1..Len(handlers) : Step(i) \/ RelayGetOtherUser(i)

RelaySpec == Init /\ [][RelayNext]_vars

\* Every event is handled to completion before the next one arrives, and
\* clients send no offer, answer or ice-candidate.
SessionNext ==
    \/ Tick
    \/ /\ Running = {}
       /\ Len(handlers) < MaxSerial
       /\ \E c \in Clients :
            \/ StartFindPartner(c)
            \/ StartLeaveChat(c)
            \/ StartSkipPartner(c)
            \/ StartDisconnect(c)
            \/ SkipTimeout(c)
    \/ \E i \in 1..Len(handlers) : Step(i)

SessionSpec == Init /\ [][SessionNext]_vars

\* ---------------------------------------------------------- scenarios
HasEvent(c) == \E i \in 1..Len(handlers) : handlers[i].c = c

\* N find-partner requests from N distinct clients, handled concurrently.
DistinctFindNext ==
    \/ Tick
    \/ \E c \in Clients : ~HasEvent(c) /\ StartFindPartner(c)
    \/ \E i \in 1..Len(handlers) : PairingStep(i)

DistinctFindSpec == Init /\ [][DistinctFindNext]_vars

\* One client's find-partner is handled alone; then two other clients send
\* find-partner and their handlers interleave.
PairRaceNext ==
    \/ Tick
    \/ \E c \in Clients :
         /\ ~HasEvent(c)
         /\ Len(handlers) < 3
         /\ handlers # << >> => handlers[1].pc = "done"
         /\ StartFindPartner(c)
    \/ \E i \in 1..Len(handlers) : PairingStep(i)

PairRaceSpec == Init /\ [][PairRaceNext]_vars

\* Two clients send find-partner and their handlers interleave; a third
\* client sends find-partner once both have been handled.
FifoNext ==
    \/ Tick
    \/ \E c \in Clients :
         /\ ~HasEvent(c)
         /\ Len(handlers) < 3
         /\ Len(handlers) = 2 => Running = {}
         /\ StartFindPartner(c)
    \/ \E i \in 1..Len(handlers) : PairingStep(i)

FifoSpec == Init /\ [][FifoNext]_vars

\* One client's find-partner is handled alone; then that client disconnects
\* and another client sends find-partner, in either order, and the two
\* handlers interleave.
DisconnectRaceNext ==
    \/ Tick
    \/ /\ handlers = << >>
       /\ \E c \in Clients : StartFindPartner(c)
    \/ /\ handlers # << >>
       /\ handlers[1].pc = "done"
       /\ Len(handlers) < 3
       /\ \/ connected[handlers[1].c] /\ StartDisconnect(handlers[1].c)
          \/ \E c \in Clients : ~HasEvent(c) /\ StartFindPartner(c)
    \/ \E i \in 1..Len(handlers) : PairingStep(i) \/ LeaveStep(i)

DisconnectRaceSpec == Init /\ [][DisconnectRaceNext]_vars

\* Events are handled one at a time.  Clients send find-partner, one client
\* sends skip-partner, and its timeout fires; the skipping client sends no
\* find-partner of its own while its timeout is pending.
SkipNext ==
    \/ Tick
    \/ /\ Running = {}
       /\ Len(handlers) < MaxSkip
       /\ \E c \in Clients :
            \/ timers[c] = 0 /\ StartFindPartner(c)
            \/ /\ \A i \in 1..Len(handlers) : handlers[i].kind # "skip"
               /\ StartSkipPartner(c)
            \/ SkipTimeout(c)
    \/ \E i \in 1..Len(handlers) : Step(i)

SkipSpec == Init /\ [][SkipNext]_vars

\* Up to two clients send find-partner, handled one at a time; then clients
\* send leave-chat or disconnect, and these handlers interleave.
CloseRaceNext ==
    \/ Tick
    \/ /\ Running = {}
       /\ Len(handlers) < 2
       /\ \E c \in Clients : ~HasEvent(c) /\ StartFindPartner(c)
    \/ /\ handlers # << >>
       /\ \A i \in Running : handlers[i].kind # "find"
       /\ Len(handlers) < MaxSerial
       /\ \E c \in Clients :
            /\ \A i \in 1..Len(handlers) :
                   handlers[i].c = c => handlers[i].kind = "find"
            /\ StartLeaveChat(c) \/ StartDisconnect(c)
    \/ \E i \in 1..Len(handlers) : PairingStep(i) \/ LeaveStep(i)

CloseRaceSpec == Init /\ [][CloseRaceNext]_vars

\* Distinct clients send find-partner and their handlers interleave; once
\* all are handled one client sends leave-chat or disconnects.
RoundTripNext ==
    \/ Tick
    \/ /\ \A i \in 1..Len(handlers) : handlers[i].kind = "find"
       /\ \/ \E c \in Clients : ~HasEvent(c) /\ StartFindPartner(c)
          \/ /\ handlers # << >>
             /\ Running = {}
             /\ \E c \in Clients : StartLeaveChat(c) \/ StartDisconnect(c)
    \/ \E i \in 1..Len(handlers) : PairingStep(i) \/ LeaveStep(i)

RoundTripSpec == Init /\ [][RoundTripNext]_vars

\* Events are handled one at a time and store commands of find-partner
\* handlers may fail.
FailureNext ==
    \/ Tick
    \/ /\ Running = {}
       /\ Len(handlers) < MaxEvents
       /\ \E c \in Clients :
            \/ StartFindPartner(c)
            \/ StartLeaveChat(c)
            \/ StartDisconnect(c)
    \/ \E i \in 1..Len(handlers) : Step(i) \/ FailureStep(i)

FailureSpec == Init /\ [][FailureNext]_vars

\* Every event is handled to completion before the next one arrives; at
\* some moment between two events the process is signalled to stop.
ShutdownNext ==
    \/ /\ server = "running"
       /\ \/ Tick
          \/ /\ Running = {}
             /\ Len(handlers) < MaxEvents
             /\ \E c \in Clients :
                  \/ StartFindPartner(c)
                  \/ StartLeaveChat(c)
                  \/ StartDisconnect(c)
          \/ \E i \in 1..Len(handlers) : Step(i)
    \/ Running = {} /\ GracefulShutdown
    \/ \E c \in Clients : DisconnectWhileClosing(c)
    \/ ShutdownCallback
    \/ ForcedExit

ShutdownSpec == Init /\ [][ShutdownNext]_vars

\* Every event is handled to completion before the next one arrives; while
\* no handler runs, keys written with a lifetime may expire.
ExpiryNext ==
    \/ Tick
    \/ /\ Running = {}
       /\ \/ /\ Len(handlers) < MaxEvents
             /\ \E c \in Clients :
                  \/ StartFindPartner(c)
                  \/ StartLeaveChat(c)
                  \/ StartDisconnect(c)
          \/ \E r \in 1..uuid : ExpireRoomData(r)
          \/ \E c \in Clients : ExpireUserRoom(c)
    \/ \E i \in 1..Len(handlers) : Step(i)

ExpirySpec == Init /\ [][ExpiryNext]_vars

\* One client's find-partner is handled alone, then two other clients send
\* find-partner and their handlers interleave; once all three have been
\* handled, one client leaves or disconnects and that handler runs alone.
TeardownNext ==
    \/ Tick
    \/ \E c \in Clients :
         /\ ~HasEvent(c)
         /\ Len(handlers) < 3
         /\ handlers # << >> => handlers[1].pc = "done"
         /\ StartFindPartner(c)
    \/ /\ Len(handlers) = 3
       /\ Running = {}
       /\ \E c \in Clients : StartLeaveChat(c) \/ StartDisconnect(c)
    \/ \E i \in 1..Len(handlers) : PairingStep(i) \/ LeaveStep(i)

TeardownSpec == Init /\ [][TeardownNext]_vars

\* Find-partner requests only, of any client, with store failures.  Two
\* requests arrive in any order and their handlers interleave; a third
\* arrives once both have been handled.  Every store command a handler
\* waits for is eventually answered, by a result or by an error.
AnswerNext ==
    \/ Tick
    \/ /\ Len(handlers) < 2 \/ (Len(handlers) = 2 /\ Running = {})
       /\ \E c \in Clients : StartFindPartner(c)
    \/ \E i \in 1..Len(handlers) : FindPartnerStep(i) \/ FailureStep(i)

AnswerFairness ==
    \A i \in 1..MaxEvents : WF_vars(FindPartnerStep(i) \/ FailureStep(i))

AnswerSpec == Init /\ [][AnswerNext]_vars /\ AnswerFairness

\* Two clients send find-partner at any time; once both handlers have
\* returned, a third client sends find-partner and a store command of its
\* handler may fail.
DequeueNext ==
    \/ Tick
    \/ /\ Len(handlers) < 2 \/ (Len(handlers) = 2 /\ Running = {})
       /\ \E c \in Clients : ~HasEvent(c) /\ StartFindPartner(c)
    \/ \E i \in 1..Len(handlers) : PairingStep(i)
    \/ Len(handlers) = 3 /\ FailureStep(3)

DequeueSpec == Init /\ [][DequeueNext]_vars

\* Clients send find-partner at any time, also repeatedly, and nothing else.
FindRaceNext ==
    \/ Tick
    \/ /\ Len(handlers) < MaxEvents
       /\ \E c \in Clients : StartFindPartner(c)
    \/ \E i \in 1..Len(handlers) : FindPartnerStep(i)

FindRaceSpec == Init /\ [][FindRaceNext]_vars

\* Two clients pair; then offers, answers and ice-candidates arrive while
\* earlier ones are still waiting for their lookup.
OrderNext ==
    \/ Tick
    \/ /\ Running = {}
       /\ Len(handlers) < 2
       /\ \E c \in Clients : ~HasEvent(c) /\ StartFindPartner(c)
    \/ /\ Len(handlers) >= 2
       /\ \A i \in Running : handlers[i].kind = "relay"
       /\ Len(handlers) < MaxSerial
       /\ \E c \in Clients, ev \in RelayEvents, rid \in 0..uuid,
             body \in Bodies \cup {NoBody} : StartRelay(c, ev, rid, body)
    \/ \E i \in 1..Len(handlers) :
         PairingStep(i) \/ (ReplyInOrder(i) /\ RelayGetOtherUser(i))

OrderSpec == Init /\ [][OrderNext]_vars

\* Two find-partner events arrive at any time, also from one client, and
\* their handlers interleave; once they have returned, leave-chat and disconnect events
\* arrive and are handled one at a time.
QueueLeaveNext ==
    \/ Tick
    \/ /\ \A i \in 1..Len(handlers) : handlers[i].kind = "find"
       /\ Len(handlers) < 2
       /\ \E c \in Clients : StartFindPartner(c)
    \/ /\ handlers # << >>
       /\ Running = {}
       /\ Len(handlers) < MaxSerial
       /\ \E c \in Clients : StartLeaveChat(c) \/ StartDisconnect(c)
    \/ \E i \in 1..Len(handlers) : PairingStep(i) \/ LeaveStep(i)

QueueLeaveSpec == Init /\ [][QueueLeaveNext]_vars

\* -------------------------------------------------------------- claims
InQueue(c) == \E e \in queue : e.userId = c

EntriesOf(c) == {e \in queue : e.userId = c}

Participants(r) == {roomData[r][1], roomData[r][2]}

RoomsOf(c) == {r \in DOMAIN roomData : c \in Participants(r)}

InRoom(c) == userRoom[c] # NoRoom \/ RoomsOf(c) # {}

\* C1: in every reachable state every connected client is in exactly one of
\* idle (no queue entry, no room), queued (a queue entry, no room) and
\* paired (a room, no queue entry); no client is at once in the waiting queue
\* and mapped to, or a participant of, a room.
C1_IdleQueuedOrPaired ==
    \A c \in Clients :
        /\ connected[c] => ~(InQueue(c) /\ InRoom(c))
        /\ ~(InQueue(c) /\ RoomsOf(c) # {})

\* C2: in every reachable state a client is a participant of at most one
\* room of the registry.
C2_AtMostOneRoom == \A c \in Clients : Cardinality(RoomsOf(c)) <= 1

CreatingRoom(r) ==
    \E i \in Running :
        /\ handlers[i].room = r
        /\ handlers[i].pc \in {"createRoom_setex_room", "createRoom_setex_user1",
                               "createRoom_setex_user2", "createRoom_sadd",
                               "createRoom_hincrby"}

ClosingRoom(r) ==
    \E i \in Running :
        /\ handlers[i].room = r
        /\ handlers[i].pc \in {"closeRoom_getRoom", "closeRoom_del_user1",
                               "closeRoom_del_user2", "closeRoom_del_room",
                               "closeRoom_srem"}

\* C3: every room of the registry has two distinct participants, and while
\* no closeRoom of the room is in progress both participants' user->room
\* mappings point to it.  (Read in the claim's favour: the room's own
\* createRoom, which writes the payload before the mappings, is excepted too.)
C3_RoomHasTwoMappedParticipants ==
    \A r \in DOMAIN roomData :
        /\ roomData[r][1] # roomData[r][2]
        /\ ~ClosingRoom(r) /\ ~CreatingRoom(r) =>
               \A u \in Participants(r) : userRoom[u] = r

\* C7: a client has at most one entry in the waiting queue at any time.
C7_AtMostOneQueueEntry == \A c \in Clients : Cardinality(EntriesOf(c)) <= 1

Last(seq) == seq[Len(seq)]

Received(c, m) == \E k \in 1..Len(outbox[c]) : outbox[c][k] = m

Matched(r, init) == Msg("matched", r, init, NoUser, 0)

\* C4: an offer, answer or ice-candidate with roomId R is forwarded only
\* when its sender is a participant of the live room R, and only to the
\* other participant of R.
C4_RelayOnlyBetweenPeers ==
    [][\A i \in 1..Len(handlers), d \in Clients :
         (/\ At(i, {"relay"}, "getOtherUser")
          /\ handlers'[i].pc = "done"
          /\ Len(outbox'[d]) > Len(outbox[d])
          /\ Last(outbox'[d]).type \in RelayEvents)
         => /\ HasRoomData(handlers[i].room)
            /\ handlers[i].c \in Participants(handlers[i].room)
            /\ d \in Participants(handlers[i].room)
            /\ d # handlers[i].c]_vars

AllHandled(n) == Len(handlers) = n /\ Running = {}

\* The room created by a find-partner of x that dequeued y exists.
PairedWith(x, y) == \E r \in DOMAIN roomData : roomData[r] = <<x, y>>

\* C5: with one client A waiting and two other clients B and C sending
\* find-partner concurrently, once both are handled exactly one of B and C
\* is paired with A, the other is in the queue, and one room is active.
C5_OneWinnerOneQueued ==
    AllHandled(3) =>
        LET a == handlers[1].c
            b == handlers[2].c
            c == handlers[3].c
        IN  /\ \/ PairedWith(b, a) /\ ~PairedWith(c, a) /\ InQueue(c) /\ ~InRoom(c)
               \/ PairedWith(c, a) /\ ~PairedWith(b, a) /\ InQueue(b) /\ ~InRoom(b)
            /\ Cardinality(activeRooms) = 1
            /\ Cardinality(DOMAIN roomData) = 1

\* The client of the find-partner that races with the disconnect.
Finder == IF handlers[2].kind = "find" THEN handlers[2].c ELSE handlers[3].c

Before(c, m1, m2) ==
    \E j, k \in 1..Len(outbox[c]) :
        j < k /\ outbox[c][j] = m1 /\ outbox[c][k] = m2

\* C6: with A waiting, once A's disconnect and B's find-partner have both
\* been handled, either B was matched with A, then got partner-disconnected
\* and the room is closed, or A left the queue first and B is queued; B is
\* not left paired in a room with the disconnected A.
C6_NoGhostPartner ==
    AllHandled(3) =>
        LET a == handlers[1].c
            b == Finder
        IN  /\ \/ /\ \E r \in 1..uuid :
                       Before(b, Matched(r, TRUE),
                              Msg("partner-disconnected", r, FALSE, a, 0))
                  /\ DOMAIN roomData = {} /\ activeRooms = {}
                  /\ ~InRoom(b)
               \/ /\ InQueue(b) /\ ~InQueue(a)
                  /\ ~InRoom(b)
                  /\ DOMAIN roomData = {}
            /\ RoomsOf(a) \cap RoomsOf(b) = {}

\* C8: FIFO matching.  When A was enqueued before B and both are waiting as
\* a third client C sends find-partner, C is matched with A and B stays
\* queued, also when both entries carry the same timestamp.  (In this
\* scenario C ends up in a room exactly when both were waiting.)
C8_FifoMatch ==
    AllHandled(3) /\ userRoom[handlers[3].c] # NoRoom /\ Len(arrival) = 2 =>
        LET c == handlers[3].c
        IN  /\ PairedWith(c, arrival[1].userId)
            /\ queue = {arrival[2]}

\* C9: after N find-partner requests of N distinct idle clients have been
\* handled, floor(N/2) rooms exist and N mod 2 clients are in the queue.
C9_HalfPairedRestQueued ==
    Running = {} =>
        /\ Cardinality(DOMAIN roomData) = Len(handlers) \div 2
        /\ totalRooms = Len(handlers) \div 2
        /\ Cardinality({c \in Clients : InQueue(c)}) = Len(handlers) % 2

Count(seq, m) == Cardinality({k \in 1..Len(seq) : seq[k] = m})

\* C10: when a find-partner of B has dequeued another client A and the room
\* was created, A and B have each received exactly one matched message of
\* that room, B as initiator and A not; neither is in the queue, and the
\* active-room count and totalRooms are one above their values when the
\* request arrived.  (Stated for a caller B whose socket is connected.)
C10_MatchedBoth ==
    [][\A i \in 1..Len(handlers) :
         (/\ At(i, {"find"}, "createRoom_hincrby")
          /\ handlers'[i].pc = "done"
          /\ connected[handlers[i].c])
         => LET h == handlers[i]
            IN  /\ Count(outbox'[h.c], Matched(h.room, TRUE)) = 1
                /\ Count(outbox'[h.partner], Matched(h.room, FALSE)) = 1
                /\ Count(outbox'[h.c], Matched(h.room, FALSE)) = 0
                /\ Count(outbox'[h.partner], Matched(h.room, TRUE)) = 0
                /\ ~(InQueue(h.c))' /\ ~(InQueue(h.partner))'
                /\ Cardinality(activeRooms') = h.pre.activeRooms + 1
                /\ totalRooms' = h.pre.totalRooms + 1]_vars

\* C11: the skip-partner delay is cancelled by a disconnect: the pending
\* find-partner is issued only for a client whose socket is still connected,
\* so a disconnected client is not enqueued or paired by the delayed search.
C11_SkipTimerCancelled ==
    [][\A c \in Clients : timers'[c] < timers[c] => connected[c]]_vars

\* The room r is closed: no payload, no active-set entry, no mapping to it.
Closed(r) ==
    /\ r \notin DOMAIN roomData
    /\ r \notin activeRooms
    /\ \A c \in Clients : userRoom[c] # r

Idle(c) == ~InQueue(c) /\ userRoom[c] = NoRoom

\* The event handled last was sent by a client that was paired.
PairedEventLast(kinds) ==
    /\ handlers # << >>
    /\ Running = {}
    /\ Last(handlers).kind \in kinds
    /\ Last(handlers).pre.room # NoRoom

\* The skip-partner of a paired client has been handled and the handler of
\* its delayed find-partner, the last event so far, has returned.
ReSearchDone(i) ==
    /\ i \in 1..(Len(handlers) - 1)
    /\ Running = {}
    /\ handlers[i].kind = "skip"
    /\ handlers[i].pre.room # NoRoom
    /\ Last(handlers).c = handlers[i].c
    /\ \A j \in (i + 1)..(Len(handlers) - 1) : handlers[j].c # handlers[i].c

\* C12: when a paired client A has sent skip-partner, its peer B has received
\* partner-left, A has received left-chat, and the room is closed with the
\* re-search still pending; when the delayed find-partner has been handled,
\* A is in the queue, or in a new room with a client that was waiting, with
\* nobody left waiting; A is not back in the room that was closed.
C12_SkipLeavesThenSearches ==
    /\ PairedEventLast({"skip"}) =>
          LET h == Last(handlers)
          IN  /\ connected[h.pre.peer] =>
                    Last(outbox[h.pre.peer]) =
                        Msg("partner-left", h.pre.room, FALSE, h.c, 0)
              /\ Last(outbox[h.c]) = Plain("left-chat")
              /\ Closed(h.pre.room)
              /\ Idle(h.c)
              /\ timers[h.c] = 1
    /\ \A i \in 1..Len(handlers) : ReSearchDone(i) =>
          LET a == handlers[i].c
              r == handlers[i].pre.room
          IN  /\ Last(handlers).pre.room = NoRoom
              /\ Closed(r)
              /\ \/ InQueue(a) /\ userRoom[a] = NoRoom
                 \/ /\ ~InQueue(a)
                    /\ userRoom[a] \in DOMAIN roomData \ {r}
                    /\ roomData[userRoom[a]][1] = a
                    /\ \E k \in 1..Len(arrival) :
                           arrival[k].userId = roomData[userRoom[a]][2]
                    /\ queue = {}
                    /\ Last(outbox[a]) = Matched(userRoom[a], TRUE)

\* The delayed find-partner of a client that skipped its partner has paired
\* it with a client that was waiting.
C12_Witness ==
    \E i \in 1..Len(handlers) :
        /\ ReSearchDone(i)
        /\ userRoom[handlers[i].c] # NoRoom
        /\ Received(handlers[i].pre.peer,
                    Msg("partner-left", handlers[i].pre.room, FALSE,
                        handlers[i].c, 0))

\* C13: when the leave-chat or disconnect of a paired client has been
\* handled, its peer has been sent partner-left (leave-chat) or
\* partner-disconnected (disconnect), the room is closed (payload, both
\* mappings, active-set entry), both former participants are idle, and on
\* leave-chat the leaving client has received left-chat.
C13_LeaveClosesRoom ==
    PairedEventLast({"leave", "disconnect"}) =>
        LET h == Last(handlers)
            type == IF h.kind = "disconnect" THEN "partner-disconnected"
                    ELSE "partner-left"
        IN  /\ connected[h.pre.peer] =>
                  Last(outbox[h.pre.peer]) = Msg(type, h.pre.room, FALSE, h.c, 0)
            /\ Closed(h.pre.room)
            /\ Idle(h.c) /\ Idle(h.pre.peer)
            /\ h.kind = "leave" => Last(outbox[h.c]) = Plain("left-chat")

\* A paired client's disconnect has been handled and its peer is connected.
C13_Witness ==
    /\ PairedEventLast({"disconnect"})
    /\ connected[Last(handlers).pre.peer]
    /\ Received(Last(handlers).pre.peer,
                Msg("partner-disconnected", Last(handlers).pre.room, FALSE,
                    Last(handlers).c, 0))

\* Handler i is about to call closeRoom(r) for a room r that an earlier
\* closeRoom(r) has closed completely.
SecondClose(i) ==
    /\ At(i, LeaveKinds, "closeRoom_getRoom")
    /\ handlers[i].room \in 1..uuid
    /\ Closed(handlers[i].room)
    /\ ~\E j \in Running \ {i} : handlers[j].room = handlers[i].room

\* C14: a closeRoom(r) called after a closeRoom(r) that succeeded returns
\* false and leaves the queue, every room payload, every user->room mapping
\* and the active-room set as the first call left them.
C14_CloseRoomIdempotent ==
    [][\A i \in 1..Len(handlers) :
         SecondClose(i) /\ handlers'[i] # handlers[i]
         => /\ handlers'[i].pc = "removeFromQueue_zrange"
            /\ queue' = queue
            /\ roomData' = roomData
            /\ userRoom' = userRoom
            /\ activeRooms' = activeRooms]_vars

\* A second closeRoom of a closed room is about to run.
C14_Witness == \E i \in 1..Len(handlers) : SecondClose(i)

\* addToQueue(u) was the last change of the queue before the
\* removeFromQueue(u) of the event handled last: nothing was dequeued, and
\* u's entry is the last one inserted.
EnqueuedThenRemoved ==
    /\ handlers # << >>
    /\ Running = {}
    /\ Last(handlers).kind \in {"leave", "disconnect"}
    /\ uuid = 0
    /\ arrival # << >>
    /\ Last(arrival).userId = Last(handlers).c

\* C15: for a user u not in the queue, addToQueue(u) followed by
\* removeFromQueue(u) leaves the queue with the entries, in the order, it
\* had before the two calls.
C15_EnqueueRemoveRoundTrip ==
    EnqueuedThenRemoved =>
        ZRange(queue) = ZRange({arrival[k] : k \in 1..(Len(arrival) - 1)})

\* The round trip on a queue that held other clients' entries.
C15_Witness == EnqueuedThenRemoved /\ Len(arrival) >= 2 /\ queue # {}

\* C16: when a store write inside createRoom fails, createRoom has rolled
\* back what it wrote: no payload, no user->room mapping and no active-set
\* entry of the failed room remains.
C16_CreateRoomRollsBack ==
    [][\A i \in 1..Len(handlers) :
         (/\ handlers[i].pc \in {"createRoom_setex_room", "createRoom_setex_user1",
                                 "createRoom_setex_user2", "createRoom_sadd"}
          /\ handlers'[i].pc = "requeue_self")
         => /\ handlers[i].room \notin DOMAIN roomData'
            /\ handlers[i].room \notin activeRooms'
            /\ \A c \in Clients : userRoom'[c] # handlers[i].room]_vars

\* C17: when a store command fails while a find-partner is handled, the
\* handler stops there: the step changes nothing in the queue, the room
\* registry and the mappings, the client is sent error and nothing else,
\* and no later step of this handler sends the client waiting or matched.
C17_FailedFindAborts ==
    [][\A i \in 1..Len(handlers) :
         handlers[i].kind = "find" /\ handlers'[i].failed /\ handlers'[i] # handlers[i]
         => LET c == handlers[i].c
            IN  /\ ~handlers[i].failed =>
                      /\ handlers'[i].pc = "done"
                      /\ connected[c] => outbox'[c] = Append(outbox[c], Plain("error"))
                      /\ <<queue, roomData, userRoom, activeRooms>>' =
                             <<queue, roomData, userRoom, activeRooms>>
                /\ \A k \in (Len(outbox[c]) + 1)..Len(outbox'[c]) :
                       outbox'[c][k].type \notin {"waiting", "matched"}]_vars

\* C18: addToQueue checks its precondition itself: an entry is added only
\* for a user that is neither in the queue nor mapped to a room; for any
\* other user the queue is left unchanged.
C18_EnqueueChecksPrecondition ==
    [][\A e \in queue' \ queue :
         ~InQueue(e.userId) /\ userRoom[e.userId] = NoRoom]_vars

\* Handler i is about to look up the peer for a relay whose sender is a
\* participant of the live room named in the message.
RelayFromParticipant(i) ==
    /\ At(i, {"relay"}, "getOtherUser")
    /\ HasRoomData(handlers[i].room)
    /\ handlers[i].c \in Participants(handlers[i].room)

\* C19: when a participant of the live room R sends offer, answer or
\* ice-candidate with roomId R, the other participant receives one message
\* with the same event name, body and roomId, and nobody else receives
\* anything.
C19_RelayVerbatim ==
    [][\A i \in 1..Len(handlers) :
         RelayFromParticipant(i) /\ handlers'[i].pc = "done"
         => LET h == handlers[i]
                peer == PeerIn(h.room, h.c)
            IN  /\ connected[peer] =>
                      /\ Len(outbox'[peer]) = Len(outbox[peer]) + 1
                      /\ SubSeq(outbox'[peer], 1, Len(outbox[peer])) = outbox[peer]
                      /\ Last(outbox'[peer]).type = h.ev
                      /\ Last(outbox'[peer]).body = h.body
                      /\ Last(outbox'[peer]).room = h.room
                /\ h.body \in Bodies
                /\ \A d \in Clients \ {peer} : outbox'[d] = outbox[d]]_vars

\* A client has received a relayed message of its live room from its peer.
C19_Witness ==
    \E d \in Clients : \E k \in 1..Len(outbox[d]) :
        LET m == outbox[d][k]
        IN  /\ m.type \in RelayEvents
            /\ m.body \in Bodies
            /\ HasRoomData(m.room)
            /\ Participants(m.room) = {m.from, d}
            /\ m.from # d

\* C20: when no peer is found for the roomId of an offer, answer or
\* ice-candidate, the message is dropped silently: nothing is forwarded,
\* nothing is sent back to the sender, and no state changes.
C20_DropSilently ==
    [][\A i \in 1..Len(handlers) :
         (/\ At(i, {"relay"}, "getOtherUser")
          /\ ~HasRoomData(handlers[i].room)
          /\ handlers'[i].pc = "done")
         => /\ outbox' = outbox
            /\ <<queue, roomData, userRoom, activeRooms, totalRooms>>' =
                   <<queue, roomData, userRoom, activeRooms, totalRooms>>]_vars

\* ------------------------------------------------------------------ C21
\* The newest handler is one of an offer, answer or ice-candidate whose data
\* lacked the body or the roomId: it returned before its first store command.
InvalidRelayArrives ==
    /\ Len(handlers') = Len(handlers) + 1
    /\ Last(handlers').kind = "relay"
    /\ Last(handlers').pc = "done"

\* C21: an offer, answer or ice-candidate that lacks its roomId or its body
\* is answered with an error to the client that sent it, nothing is forwarded
\* to any other client and the queue and the rooms stay as they were.
C21_InvalidRelayGetsError ==
    [][InvalidRelayArrives =>
         LET c == Last(handlers').c
         IN  /\ outbox'[c] = Append(outbox[c], Plain("error"))
             /\ \A d \in Clients \ {c} : outbox'[d] = outbox[d]
             /\ UNCHANGED <<queue, roomData, userRoom, activeRooms, totalRooms>>]_vars

\* ------------------------------------------------------------------ C22
\* The queue and the rooms are as they were.
StoreUnchanged ==
    UNCHANGED <<queue, roomData, userRoom, activeRooms, totalRooms>>

\* Handler i takes a step.
Steps(i) ==
    /\ i \in 1..Len(handlers)
    /\ handlers[i].pc # "done"
    /\ handlers'[i] # handlers[i]

\* The messages client c receives in the step, when handler i ends in it,
\* are exactly one message of the given type; no other client receives any.
OnlyReply(i, type) ==
    LET c == handlers[i].c
    IN  /\ outbox'[c] = IF handlers'[i].pc = "done" /\ connected[c]
                        THEN Append(outbox[c], Plain(type)) ELSE outbox[c]
        /\ \A d \in Clients \ {c} : outbox'[d] = outbox[d]

\* C22: a find-partner from a client that is already paired is answered with
\* an error to that client and changes nothing: the queue is not touched, no
\* room is created or closed, and the peer receives nothing.
C22_PairedFindChangesNothing ==
    [][\A i \in 1..Len(handlers) :
         (/\ Steps(i)
          /\ handlers[i].kind = "find"
          /\ handlers[i].pre.room # NoRoom)
         => /\ StoreUnchanged
            /\ OnlyReply(i, "error")
            /\ handlers'[i].pc \in {"getRoom", "done"}]_vars

\* A paired client's find-partner has been answered with the error, and the
\* client is still paired in the same room with the same peer.
C22_Witness ==
    \E i \in 1..Len(handlers) :
        LET h == handlers[i]
        IN  /\ h.kind = "find" /\ h.pc = "done"
            /\ h.pre.room # NoRoom
            /\ Last(outbox[h.c]).type = "error"
            /\ PairedRoom(h.c) = h.pre.room
            /\ PeerIn(h.pre.room, h.c) = h.pre.peer

\* ------------------------------------------------------------------ C23
\* C23: a find-partner from a client that is already queued is answered with
\* waiting and changes nothing: the client keeps its one entry with its
\* timestamp, no other entry is dequeued and no room is created.
C23_QueuedFindChangesNothing ==
    [][\A i \in 1..Len(handlers) :
         (/\ Steps(i)
          /\ handlers[i].kind = "find"
          /\ handlers[i].pre.queued)
         => /\ StoreUnchanged
            /\ OnlyReply(i, "waiting")
            /\ handlers'[i].pc \in {"isInQueue", "done"}]_vars

\* A queued client's find-partner has been answered with waiting, and the
\* client's one entry is the whole queue, as before.
C23_Witness ==
    \E i \in 1..Len(handlers) :
        LET h == handlers[i]
        IN  /\ h.kind = "find" /\ h.pc = "done"
            /\ h.pre.queued
            /\ Last(outbox[h.c]).type = "waiting"
            /\ Cardinality(EntriesOf(h.c)) = 1
            /\ Cardinality(queue) = 1

\* ------------------------------------------------------------------ C24
\* C24: once a leave-chat or disconnect of a queued client has been handled,
\* the client has no entry left in the waiting queue; the handler removes no
\* entry of another client, and for a client without an entry it leaves the
\* queue as it is.
C24_LeaveRemovesEntry ==
    [][\A i \in 1..Len(handlers) :
         (/\ Steps(i)
          /\ handlers[i].kind \in {"leave", "disconnect"})
         => LET c == handlers[i].c
            IN  /\ queue' \subseteq queue
                /\ \A e \in queue \ queue' : e.userId = c
                /\ ~InQueue(c) => queue' = queue
                /\ handlers'[i].pc = "done" => ~(\E e \in queue' : e.userId = c)]_vars

\* ------------------------------------------------------------------ C25
\* Handler i is a disconnect of a client whose previous event was a
\* leave-chat that has been handled to its end.
DisconnectAfterLeave(i) ==
    /\ i \in 1..Len(handlers)
    /\ handlers[i].kind = "disconnect"
    /\ \E j \in 1..(i - 1) :
          /\ handlers[j].c = handlers[i].c
          /\ handlers[j].kind = "leave"
          /\ handlers[j].pc = "done"
          /\ \A k \in (j + 1)..(i - 1) : handlers[k].c # handlers[i].c

\* C25: a disconnect of a client whose leave-chat has been fully handled
\* changes no queue or room state and sends no message, to its former peer
\* or to anyone else.
C25_DisconnectAfterLeaveIsNoOp ==
    [][\A i \in 1..Len(handlers) :
         (Steps(i) /\ DisconnectAfterLeave(i))
         => /\ StoreUnchanged
            /\ outbox' = outbox]_vars

\* A client that left a room, with its former peer still connected, has
\* disconnected and the disconnect has been handled.
C25_Witness ==
    \E i \in 1..Len(handlers) :
        /\ DisconnectAfterLeave(i)
        /\ handlers[i].pc = "done"
        /\ handlers[i - 1].c = handlers[i].c
        /\ handlers[i - 1].pre.room # NoRoom
        /\ connected[handlers[i - 1].pre.peer]
        /\ Received(handlers[i - 1].pre.peer,
                    Msg("partner-left", handlers[i - 1].pre.room, FALSE,
                        handlers[i].c, 0))

\* ------------------------------------------------------------------ C26
\* Handler j forwards its message to the sender's peer in this step.
Forwards(j) ==
    /\ Steps(j)
    /\ handlers[j].kind = "relay"
    /\ \E d \in Clients \ {handlers[j].c} : outbox'[d] # outbox[d]

Notified(c) ==
    \E k \in 1..Len(outbox[c]) : outbox[c][k].type = "partner-disconnected"

\* C27: on a graceful shutdown every paired client is sent
\* partner-disconnected and every room is closed before the process
\* terminates: when the process has exited no room payload, user->room
\* mapping or active-set entry remains, and every connected client that was
\* still paired while the server was closing has been notified.
C27_ShutdownClosesRooms ==
    [][(server = "closing" /\ server' = "exited") =>
         /\ DOMAIN roomData' = {}
         /\ activeRooms' = {}
         /\ \A c \in Clients : userRoom'[c] = NoRoom
         /\ \A c \in Clients :
                PairedRoom(c) # NoRoom /\ connected[c] =>
                    \E k \in 1..Len(outbox'[c]) :
                        outbox'[c][k].type = "partner-disconnected"]_vars

\* ------------------------------------------------------------------ C28
\* C28: stale room state evicts itself: once the payload of a room and the
\* user->room mappings to it are gone and no handler is running, the room's
\* id is not in the active-room set either, and the active-room count is
\* the number of rooms that exist.
C28_StaleRoomEvicted ==
    Running = {} =>
        /\ \A r \in 1..uuid :
               (~HasRoomData(r) /\ \A c \in Clients : userRoom[c] # r)
                   => r \notin activeRooms
        /\ (\A r \in activeRooms : \A c \in Clients : userRoom[c] # r)
               => Cardinality(activeRooms) = Cardinality(DOMAIN roomData)

\* ------------------------------------------------------------------ C29
\* C29: a find-partner that enqueues its caller sends the caller waiting and
\* then queue-update, whose position is the size the queue had right after
\* the caller's own entry was added.
C29_PositionIsSizeAfterEnqueue ==
    [][\A i \in 1..Len(handlers) :
         (Steps(i) /\ At(i, {"find"}, "getQueueSize") /\ connected[handlers[i].c])
         => LET c == handlers[i].c
            IN  /\ Last(outbox[c]).type = "waiting"
                /\ outbox'[c] =
                       Append(outbox[c],
                              Msg("queue-update", NoRoom, FALSE, NoUser,
                                  handlers[i].enq))]_vars

\* ------------------------------------------------------------------ C30
\* Handler i's createRoom returns the room in this step: the room is
\* reported created, and matched is sent.
ReportsRoom(i) ==
    /\ Steps(i)
    /\ At(i, {"find"}, "createRoom_hincrby")
    /\ handlers'[i].pc = "done"

\* C30: totalRooms never decreases, and it grows by exactly one in the step
\* that reports a room created and in no other step; a room is never
\* reported created with the counter left as it was.
C30_TotalRoomsCountsCreatedRooms ==
    [][/\ totalRooms' >= totalRooms
       /\ totalRooms' # totalRooms => \E i \in 1..Len(handlers) : ReportsRoom(i)
       /\ \A i \in 1..Len(handlers) :
              ReportsRoom(i) => totalRooms' = totalRooms + 1]_vars

\* ------------------------------------------------------------------ C31
\* C31: the room payload and both user->room mappings are in the store
\* before matched is sent: in the step that sends matched for a room, a
\* lookup of the room by either participant returns that room.
C31_PublishedBeforeMatched ==
    [][\A i \in 1..Len(handlers) :
         ReportsRoom(i) =>
             LET h == handlers[i]
             IN  /\ HasRoomData(h.room)
                 /\ PairedRoom(h.c) = h.room
                 /\ PairedRoom(h.partner) = h.room]_vars

\* ------------------------------------------------------------------ C32
\* C32: getNextFromQueue, run by a handler with no other handler in
\* progress, returns nothing and leaves an empty queue as it is; otherwise
\* it reads an entry with the lowest timestamp and removes exactly that
\* entry; when the removal fails the queue stays as it is and no entry is
\* handed out.
C32_DequeueOldest ==
    [][\A i \in 1..Len(handlers) :
         (Steps(i) /\ Running = {i} /\ handlers[i].kind = "find")
         => LET h == handlers[i]
                g == handlers'[i]
                e == QueueEntry(h.partner, h.pts)
            IN  /\ (h.pc = "getNext_zrange" /\ queue = {})
                       => queue' = queue /\ g.pc = "addToQueue_zadd"
                /\ (h.pc = "getNext_zrange" /\ g.pc = "getNext_zrem")
                       => /\ queue' = queue
                          /\ QueueEntry(g.partner, g.pts) \in queue
                          /\ \A f \in queue : g.pts <= f.timestamp
                /\ h.pc = "getNext_zrem"
                       => \/ /\ e \in queue
                             /\ queue' = queue \ {e}
                             /\ g.partner = h.partner
                             /\ g.pc = "createRoom_setex_room"
                          \/ /\ queue' = queue
                             /\ g.partner = NoUser
                             /\ g.pc = "addToQueue_zadd"]_vars

\* The handler of the third client has dequeued the older of two entries with
\* different timestamps; the newer one is still queued.
C32_Witness ==
    /\ Len(handlers) = 3
    /\ handlers[3].pc = "createRoom_setex_room"
    /\ Len(arrival) = 2
    /\ arrival[1].timestamp < arrival[2].timestamp
    /\ handlers[3].partner = arrival[1].userId
    /\ queue = {arrival[2]}

\* ------------------------------------------------------------------ C33
\* The entry most recently added to the queue for user u.
LastArrivalOf(u) ==
    LET ks == {k \in 1..Len(arrival) : arrival[k].userId = u}
    IN  arrival[CHOOSE k \in ks : \A l \in ks : l <= k]

\* C33: when createRoom has failed after a partner was dequeued, the handler
\* ends with the caller and the partner both queued and an error sent to the
\* caller, and the partner is queued with the timestamp of the entry that was
\* dequeued, ahead of the caller.
C33_RequeueKeepsTimestamp ==
    [][\A i \in 1..Len(handlers) :
         (Steps(i) /\ At(i, {"find"}, "requeue_partner"))
         => LET h == handlers[i]
                old == LastArrivalOf(h.partner)
            IN  /\ \E e \in queue' : e.userId = h.c
                /\ old \in queue'
                /\ \A e \in queue' : e.userId = h.c => ZBefore(old, e)
                /\ outbox'[h.c] = Append(outbox[h.c], Plain("error"))]_vars

\* ------------------------------------------------------------------ C34
\* C34: when the entry a find-partner handler dequeues is its caller's own,
\* no room is created, the caller is enqueued again and sent waiting, and
\* when the handler has returned the caller has exactly one queue entry; no
\* room ever lists one client twice.
C34_SelfDequeueRequeues ==
    [][/\ \A i \in 1..Len(handlers) :
            (Steps(i) /\ handlers[i].kind = "find")
            => LET h == handlers[i]
                   g == handlers'[i]
               IN  /\ (h.pc = "getNext_zrem" /\ h.partner = h.c)
                          => /\ UNCHANGED <<roomData, userRoom, activeRooms, uuid>>
                             /\ g.pc = "addToQueue_zadd"
                   /\ (h.own /\ h.pc = "addToQueue_zadd")
                          => /\ \E e \in queue' : e.userId = h.c
                             /\ connected[h.c] =>
                                    outbox'[h.c] = Append(outbox[h.c], Plain("waiting"))
                   /\ (h.own /\ g.pc = "done")
                          => Cardinality({e \in queue' : e.userId = h.c}) = 1
       /\ \A r \in DOMAIN roomData' : roomData'[r][1] # roomData'[r][2]]_vars

\* ------------------------------------------------------------------ C35
\* C35: once the disconnect of a client has been handled, the client has no
\* queue entry and no user->room mapping and is a participant of no room,
\* in that state and in every later one.
C35_NoStateAfterDisconnect ==
    \A i \in 1..Len(handlers) :
        (handlers[i].kind = "disconnect" /\ handlers[i].pc = "done")
        => LET c == handlers[i].c
           IN  /\ ~InQueue(c)
               /\ userRoom[c] = NoRoom
               /\ RoomsOf(c) = {}

\* ------------------------------------------------------------------ C36
\* C36: with find-partner requests only and no store failure, whenever no
\* handler is in progress the waiting queue holds at most one client.
C36_AtMostOneWaiting ==
    Running = {} => Cardinality({c \in Clients : InQueue(c)}) <= 1

\* ------------------------------------------------------------------ C37
\* The departure notifications client c has received for room r.
Departures(c, r) ==
    {k \in 1..Len(outbox[c]) :
        /\ outbox[c][k].type \in {"partner-left", "partner-disconnected"}
        /\ outbox[c][k].room = r}

\* C37: the teardown of a room produces at most one departure notification
\* in total (partner-left or partner-disconnected), so that two participants
\* who leave together are not both notified and no client is notified twice
\* for the same room.
C37_OneDepartureNotification ==
    \A r \in 1..uuid :
        Cardinality({<<c, k>> \in Clients \X (1..(2 * MaxSerial)) :
                        k \in Departures(c, r)}) <= 1

\* ------------------------------------------------------------------ C38
\* Handler i is inside closeRoom(r), past its read of the room payload.
InCloseRoom(i, r) ==
    /\ i \in 1..Len(handlers)
    /\ handlers[i].pc \in {"closeRoom_del_user1", "closeRoom_del_user2",
                           "closeRoom_del_room", "closeRoom_srem"}
    /\ handlers[i].room = r

\* C38: a step of closeRoom(r) leaves the waiting queue, the payload and the
\* active-set membership of every other room, the totalRooms counter and
\* every user->room mapping that points to a room other than r unchanged.
C38_CloseRoomFrame ==
    [][\A i \in 1..Len(handlers) : \A r \in 1..uuid :
          InCloseRoom(i, r) /\ Steps(i) =>
              /\ queue' = queue
              /\ totalRooms' = totalRooms
              /\ \A q \in (1..uuid) \ {r} :
                     /\ HasRoomData(q) => /\ q \in DOMAIN roomData'
                                          /\ roomData'[q] = roomData[q]
                     /\ ~HasRoomData(q) => q \notin DOMAIN roomData'
                     /\ (q \in activeRooms') = (q \in activeRooms)
              /\ \A c \in Clients :
                     userRoom[c] # r => userRoom'[c] = userRoom[c]]_vars

\* ------------------------------------------------------------------ C39
\* The room ids that some user->room mapping points to.
MappedRooms == {userRoom[c] : c \in Clients} \ {NoRoom}

\* QueueManager.getStats().activeRooms: SCARD rooms:active
StatsActiveRooms == Cardinality(activeRooms)

\* C39: whenever no handler is in progress, the active-room set, the set of
\* room ids with a payload and the set of room ids that user->room mappings
\* point to are equal, and stats().activeRooms is their size.
C39_RegistryConsistent ==
    Running = {} =>
        /\ activeRooms = DOMAIN roomData
        /\ MappedRooms = DOMAIN roomData
        /\ StatsActiveRooms = Cardinality(DOMAIN roomData)

\* ------------------------------------------------------------------ C40
\* C40: a find-partner handler never sends its caller more than one of
\* waiting, matched and error, and every find-partner request is eventually
\* handled to the end with exactly one of them sent.
C40_FindPartnerAnswered ==
    /\ [](\A i \in 1..Len(handlers) :
             handlers[i].kind = "find" => handlers[i].ans <= 1)
    /\ \A i \in 1..MaxEvents :
          (i <= Len(handlers) /\ handlers[i].kind = "find")
              ~> (/\ i <= Len(handlers)
                  /\ handlers[i].pc = "done"
                  /\ handlers[i].ans = 1)

\* Three find-partner requests have been answered, one of them by a handler
\* a store command of which failed, and between them the callers were sent
\* waiting, matched and error.
C40_Witness ==
    /\ Len(handlers) = 3
    /\ \A i \in 1..3 : handlers[i].pc = "done" /\ handlers[i].ans = 1
    /\ \E i \in 1..3 : handlers[i].failed
    /\ \A t \in {"waiting", "matched", "error"} :
          \E c \in Clients : \E k \in 1..Len(outbox[c]) : outbox[c][k].type = t

=============================================================================
